---- MODULE Spec2Model ----
(***************************************************************************)
(* Model of pymatgen/io/GWsetup.py: the staged VASP input sets for GW      *)
(* calculations (MPGWscDFTPrepVaspInputSet, MPGWDFTDiagVaspInputSet,       *)
(* MPGWG0W0VaspInputSet) and the flow that expands a job sequence into     *)
(* jobs (GWSpecs.excecute_flow, SingleVaspGWWork).                         *)
(*                                                                         *)
(* A structure is represented by the quantities the code reads from it:    *)
(* its valence electron count, its number of sites, its cell volume (an    *)
(* integer number of cubic Angstrom here) and kx, the first subdivision of *)
(* the automatic gamma-centred k-point mesh at the default grid density.   *)
(***************************************************************************)
EXTENDS Integers, Sequences, FiniteSets, TLC

VARIABLES
  st,        \* the structure
  out,       \* SpecNpar: the derivation applied last and its result
  inpset,    \* SpecSet: the input set object [kind, incar, dens, tests]
  last,      \* SpecSet: the last call made on the input set
  ncalls,    \* SpecSet: number of calls made on the input set
  data,      \* GWSpecs.data
  pc,        \* position of the run inside excecute_flow
  frame,     \* local variables of excecute_flow
  calls,     \* the create_job calls made so far, in order
  fs,        \* the working directory: directories, files, job scripts
  exc,       \* the exception that ended the run, if any
  consulted, \* whether a sweep catalog has been read
  errors,    \* GWSpecs.errors
  warnings,  \* GWSpecs.warnings
  rpc,       \* position of the run inside the main program
  items,     \* main: the items of items_list not yet processed
  nedits     \* update_interactive: number of keys entered so far

setvars == <<st, out, inpset, last, ncalls>>
flowvars == <<data, pc, frame, calls, fs, exc, consulted>>
runvars == <<errors, warnings, rpc, items, nedits>>
vars == <<st, out, inpset, last, ncalls, data, pc, frame, calls, fs, exc, consulted,
          errors, warnings, rpc, items, nedits>>

(***************************************************************************)
(* Bounds of the model.                                                    *)
(***************************************************************************)
MaxElectrons == 44
MaxAtoms == 2
MaxVolume == 60
MaxRaw == 4
MaxKx == 3
MaxCalls == 3
MaxNomega == 120
MaxJobs == 3
MaxEdits == 2
MaxItems == 2

(***************************************************************************)
(* Python helpers.                                                         *)
(***************************************************************************)
\* int(n / d) under "from __future__ import division": truncation toward zero
int_div(n, d) == IF n >= 0 THEN n \div d ELSE -((-n) \div d)

\* dict.update
dict_update(d, u) ==
  [k \in DOMAIN d \cup DOMAIN u |-> IF k \in DOMAIN u THEN u[k] ELSE d[k]]

min2(a, b) == IF a <= b THEN a ELSE b
max2(a, b) == IF a >= b THEN a ELSE b

(***************************************************************************)
(* The sweep tables (class attribute TESTS of each stage).                 *)
(***************************************************************************)
TESTS_Prep == [p \in {} |-> [test_range |-> <<>>, method |-> "", control |-> ""]]

TESTS_Diag ==
  [p \in {"NBANDS"} |->
     [test_range |-> <<10, 20, 30>>, method |-> "set_nbands", control |-> "gap"]]

TESTS_G0W0 ==
  [p \in {"ENCUTGW", "NOMEGA"} |->
     IF p = "ENCUTGW"
     THEN [test_range |-> <<200, 300, 400>>, method |-> "incar_settings", control |-> "gap"]
     ELSE [test_range |-> <<80, 100, 120>>, method |-> "set_nomega", control |-> "gap"]]

Kinds == {"prep", "diag", "g0w0"}

\* cls.TESTS: the attribute lookup finds the table the class itself defines
class_TESTS(kind) ==
  CASE kind = "prep" -> TESTS_Prep
    [] kind = "diag" -> TESTS_Diag
    [] kind = "g0w0" -> TESTS_G0W0

\* a catalog that also holds the tables of the ancestor stages
inherited_TESTS(kind) ==
  CASE kind = "prep" -> TESTS_Prep
    [] kind = "diag" -> dict_update(TESTS_Prep, TESTS_Diag)
    [] kind = "g0w0" -> dict_update(dict_update(TESTS_Prep, TESTS_Diag), TESTS_G0W0)

\* get_defaults_tests: cls.TESTS.copy()
get_defaults_tests(kind) == class_TESTS(kind)

(***************************************************************************)
(* Band count and parallel factor.                                         *)
(***************************************************************************)
\* get_bands: int(electrons / 2 + len(structure))
get_bands(s) == int_div(s.electrons + 2 * s.natoms, 2)

\* the quotient of get_npar rounded to the nearest integer
npar_rounded(bands, volume) ==
  min2(max2((2 * bands * bands * volume + 600) \div 1200, 1), 52)

\* the quotient of get_npar without the upper clamp
npar_unclamped(bands, volume) ==
  max2(int_div(bands * bands * volume, 600), 1)

\* get_npar on a band count and a volume
npar_of(bands, volume) ==
  min2(max2(int_div(bands * bands * volume, 600), 1), 52)

get_npar(s) == npar_of(get_bands(s), s.volume)

(***************************************************************************)
(* The base settings template MPGWVaspInputSet.json, loaded by every       *)
(* constructor into incar_settings and kpoints_settings.                   *)
(***************************************************************************)
BaseIncar == [k \in {"ALGO", "NELM"} |-> IF k = "ALGO" THEN "Normal" ELSE 100]

BaseGridDensity == 500

(***************************************************************************)
(* Operations of the input sets, as functions on the object's state        *)
(* s = [kind, incar, dens, tests] and the structure x it was built for.    *)
(***************************************************************************)
\* npar * int(n / npar)
aligned(npar, n) == npar * int_div(n, npar)

\* npar * int(n / npar + 1)
aligned_next(npar, n) == npar * int_div(n + npar, npar)

\* the band count stored by set_gw_bands
gw_bands(x, factor) == aligned_next(get_npar(x), factor * get_bands(x))

\* the update of set_gw_bands that switches ALGO from 800 bands on
store_gw_bands_from_800(incar, nbands) ==
  dict_update(incar,
    [k \in (IF nbands >= 800 THEN {"NBANDS", "ALGO"} ELSE {"NBANDS"}) |->
       IF k = "NBANDS" THEN nbands ELSE "fast"])

\* the two updates of set_gw_bands: NBANDS, and ALGO above 800 bands
store_gw_bands(incar, nbands) ==
  dict_update(incar,
    [k \in (IF nbands > 800 THEN {"NBANDS", "ALGO"} ELSE {"NBANDS"}) |->
       IF k = "NBANDS" THEN nbands ELSE "fast"])

\* set_gw_bands on the settings mapping
set_gw_bands_incar(incar, x, factor) == store_gw_bands(incar, gw_bands(x, factor))

set_gw_bands(s, x, factor) ==
  [s EXCEPT !.incar = set_gw_bands_incar(s.incar, x, factor)]

\* __init__ of the three stages
construct(kind, x) ==
  LET npar == get_npar(x)
      diagIncar ==
        dict_update(
          set_gw_bands_incar(
            dict_update(BaseIncar,
              [k \in {"ALGO", "NELM", "LOPTICS"} |->
                 CASE k = "ALGO" -> "Exact" [] k = "NELM" -> 1 [] k = "LOPTICS" -> "TRUE"]),
            x, 15),
          [k \in {"NPAR"} |-> npar])
      nomega_max == 25 * x.kx
      nomega == aligned(npar, nomega_max)
      g0w0Incar ==
        dict_update(
          set_gw_bands_incar(
            dict_update(BaseIncar,
              [k \in {"ALGO", "ENCUTGW", "LWAVE", "NELM"} |->
                 CASE k = "ALGO" -> "GW0" [] k = "ENCUTGW" -> 250
                   [] k = "LWAVE" -> "FALSE" [] k = "NELM" -> 1]),
            x, 15),
          [k \in {"NPAR", "NOMEGA", "LWANNIER90_RUN", "LWRITE_MMN_AMN"} |->
             CASE k = "NPAR" -> npar [] k = "NOMEGA" -> nomega
               [] k = "LWANNIER90_RUN" -> ".TRUE." [] k = "LWRITE_MMN_AMN" -> ".TRUE."])
  IN [kind |-> kind,
      incar |-> CASE kind = "prep" -> BaseIncar
                  [] kind = "diag" -> diagIncar
                  [] kind = "g0w0" -> g0w0Incar,
      dens |-> BaseGridDensity,
      tests |-> get_defaults_tests(kind)]

\* the table set_test looks the parameter up in
all_tests == dict_update(dict_update(TESTS_Prep, TESTS_Diag), TESTS_G0W0)

\* set_test raises KeyError for a parameter of none of the three tables
set_test_raises(t) == t[1] \notin DOMAIN all_tests

\* what set_test stores for method set_nomega
set_nomega_value(x, raw) == aligned(get_npar(x), raw)

\* what set_test stores for method set_nbands, computed without the alignment
set_nbands_value_raw(x, raw) == raw * get_bands(x) + 1

\* what set_test stores for method set_nbands
set_nbands_value(x, raw) == aligned_next(get_npar(x), raw * get_bands(x))

\* set_test storing the override before it looks the parameter up
set_test_store_first(s, x, t) ==
  [s EXCEPT !.incar = dict_update(s.incar, [k \in {t[1]} |-> t[2]])]

\* set_test with _test_ = {t[1]: t[2]}; the state is returned as it is left
\* when the lookup raises KeyError
set_test(s, x, t) ==
  IF set_test_raises(t) THEN s
  ELSE LET test_type == all_tests[t[1]].method
       IN CASE test_type = "incar_settings" ->
                 [s EXCEPT !.incar = dict_update(s.incar, [k \in {t[1]} |-> t[2]])]
            [] test_type = "set_nomega" ->
                 [s EXCEPT !.incar =
                    dict_update(s.incar, [k \in {"NOMEGA"} |-> set_nomega_value(x, t[2])])]
            [] test_type = "set_nbands" ->
                 [s EXCEPT !.incar =
                    dict_update(s.incar, [k \in {"NBANDS"} |-> set_nbands_value(x, t[2])])]
            [] OTHER -> s

\* set_dens: grid_density := spec['kp_grid_dens']
set_dens(s, dens) == [s EXCEPT !.dens = dens]

\* the update band count of gw0_on, not aligned to the parallel factor
nbandsgw_unaligned(x, gwbandsfac) == get_bands(x) * gwbandsfac

\* the update band count of gw0_on
nbandsgw_value(x, gwbandsfac) == aligned(get_npar(x), get_bands(x) * gwbandsfac)

gw0_on(s, x, niter, gwbandsfac, qpsc) ==
  LET inc1 == dict_update(s.incar,
                [k \in {"NELM", "NBANDSGW"} |->
                   IF k = "NELM" THEN niter ELSE nbandsgw_value(x, gwbandsfac)])
  IN [s EXCEPT !.incar =
        IF qpsc THEN dict_update(inc1, [k \in {"ALGO"} |-> "scGW0"]) ELSE inc1]

\* the frequency-grid size of the high precision tier: int(NOMEGA * 1.5)
nomega_high(x, nomega) == int_div(3 * nomega, 2)

\* set_prec_high of the three stages (each calls its parent's first)
set_prec_high(s, x) ==
  LET prepIncar == dict_update(s.incar,
                     [k \in {"PREC", "ENCUT"} |-> IF k = "PREC" THEN "Accurate" ELSE 400])
      diagIncar == set_gw_bands_incar(prepIncar, x, 30)
      g0w0Incar ==
        dict_update(
          dict_update(diagIncar,
            [k \in {"ENCUTGW", "NOMEGA"} |->
               IF k = "ENCUTGW" THEN 400 ELSE nomega_high(x, s.incar["NOMEGA"])]),
          [k \in {"PRECFOCK"} |-> "accurate"])
  IN [s EXCEPT !.incar = CASE s.kind = "prep" -> prepIncar
                           [] s.kind = "diag" -> diagIncar
                           [] s.kind = "g0w0" -> g0w0Incar]

(***************************************************************************)
(* Labels and paths of the jobs.                                           *)
(***************************************************************************)
ParamChars(p) ==
  CASE p = "NBANDS" -> <<"N", "B", "A", "N", "D", "S">>
    [] p = "ENCUTGW" -> <<"E", "N", "C", "U", "T", "G", "W">>
    [] p = "NOMEGA" -> <<"N", "O", "M", "E", "G", "A">>

DigitChars == <<"0", "1", "2", "3", "4", "5", "6", "7", "8", "9">>

\* str() of a non-negative integer, as a sequence of characters
RECURSIVE str_int(_)
str_int(n) ==
  IF n < 10 THEN <<DigitChars[n + 1]>>
  ELSE str_int(n \div 10) \o <<DigitChars[(n % 10) + 1]>>

\* str() of an empty or single-entry dict, as a sequence of characters
str_dict(o) ==
  IF o = <<>> THEN <<"{", "}">>
  ELSE <<"{", "'">> \o ParamChars(o[1]) \o <<"'", ":", " ">> \o str_int(o[2]) \o <<"}">>

UnsafeChars == {"'", ":", " ", ",", "{", "}"}

\* the chain of replacements without the one of the space
strip_unsafe_keep_space(cs) == SelectSeq(cs, LAMBDA c : c \notin UnsafeChars \ {" "})

\* the chain of str.replace(char, "")
strip_unsafe(cs) == SelectSeq(cs, LAMBDA c : c \notin UnsafeChars)

RECURSIVE join(_)
join(cs) == IF cs = <<>> THEN "" ELSE Head(cs) \o join(Tail(cs))

\* option_prep_name and option_name of create_input and create_job_script;
\* option is <<>> for None, else the pair of selections
\* a non-empty name gets a leading "."
dotted(cs) == IF Len(cs) > 0 THEN "." \o join(cs) ELSE ""

option_names(option) ==
  IF option = <<>> THEN <<"", "">>
  ELSE <<dotted(strip_unsafe(str_dict(option[1]))),
         dotted(strip_unsafe(str_dict(option[2])))>>

\* a non-empty name gets a leading ".", on the characters of the name
dotted_chars(cs) == IF Len(cs) > 0 THEN <<".">> \o cs ELSE cs

\* folder_name: the two names, as sequences of characters, of a pair of
\* selections
folder_name(option) ==
  <<dotted_chars(strip_unsafe(str_dict(option[1]))),
    dotted_chars(strip_unsafe(str_dict(option[2])))>>

\* structure.composition.reduced_formula
reduced_formula(x) == "Si"

ManyBodyJobs == {"G0W0", "GW0", "scGW0"}
JobTags == {"prep"} \cup ManyBodyJobs

\* one prep directory shared by all the sweep variants
prep_path_shared(x, option) == reduced_formula(x)

\* path of the prep directory of a job
prep_path(x, option) == reduced_formula(x) \o option_names(option)[1]

\* path of the directory of a G0W0, GW0 or scGW0 job
job_path(x, job, option) ==
  prep_path(x, option) \o "/" \o job \o option_names(option)[2]

\* the directory create_input hands to Wannier90InputSet.write_file
wannier_path(x, job, option) == job_path(x, "G0W0", option)

(***************************************************************************)
(* create_input: the parameter sets it builds and the files it writes.     *)
(***************************************************************************)
with_prec(s, x, d) == IF d.prec = "h" THEN set_prec_high(s, x) ELSE s

\* the self-consistent set of the prep job (written by write_input)
prep_inpset(d, option, x) ==
  LET s0 == set_dens(construct("prep", x), d.kp_grid_dens)
      s1 == IF d.test /\ option[1][1] \in DOMAIN construct("prep", x).tests
            THEN set_test(s0, x, option[1]) ELSE s0
  IN with_prec(s1, x, d)

\* the diagonalization set of the prep job (written as INCAR.DIAG)
diag_inpset(d, option, x) ==
  LET s0 == with_prec(construct("diag", x), x, d)
  IN IF d.test THEN set_test(s0, x, option[1]) ELSE s0

\* the set of a G0W0, GW0 or scGW0 job
stage_inpset(d, job, option, x) ==
  LET s0 == CASE job = "G0W0" -> set_dens(construct("g0w0", x), d.kp_grid_dens)
              [] job = "GW0" ->
                   gw0_on(set_dens(construct("g0w0", x), d.kp_grid_dens), x, 4, 4, FALSE)
              [] job = "scGW0" ->
                   set_dens(gw0_on(construct("g0w0", x), x, 4, 4, TRUE), d.kp_grid_dens)
      s1 == IF d.test THEN set_test(set_test(s0, x, option[1]), x, option[2]) ELSE s0
  IN with_prec(s1, x, d)

put(f, k, v) == [y \in DOMAIN f \cup {k} |-> IF y = k THEN v ELSE f[y]]

\* what is written for a set: its settings mapping and its grid density
file_of(s) == [incar |-> s.incar, dens |-> s.dens]

\* write_input of a set into dir: creates dir and its parents, writes INCAR
write_input(f, parent, dir, file) ==
  [f EXCEPT !.dirs = @ \cup {parent, dir},
            !.files = put(@, dir \o "/INCAR", file)]

\* get_incar(structure).write_file(name)
write_incar(f, name, file) == [f EXCEPT !.files = put(@, name, file)]

\* Wannier90InputSet.write_file: opens wannier90.win in a directory that has
\* to exist
wannier_write_file(f, wdir) ==
  IF wdir \in f.dirs
  THEN [fs |-> [f EXCEPT !.wannier = @ \cup {wdir}], exc |-> "none"]
  ELSE [fs |-> f, exc |-> "IOError"]

create_input(f, d, job, option, x) ==
  IF job = "prep"
  THEN [fs |-> write_incar(
                 write_input(f, prep_path(x, option), prep_path(x, option),
                             file_of(prep_inpset(d, option, x))),
                 prep_path(x, option) \o "/INCAR.DIAG",
                 file_of(diag_inpset(d, option, x))),
        exc |-> "none"]
  ELSE IF job \in ManyBodyJobs
  THEN wannier_write_file(
         write_input(f, prep_path(x, option), job_path(x, job, option),
                     file_of(stage_inpset(d, job, option, x))),
         wannier_path(x, job, option))
  ELSE [fs |-> f, exc |-> "none"]

\* open(name, mode='w') and the writes of the job's own commands
write_job_file(scripts, name, job) == put(scripts, name, <<[kind |-> "own", name |-> job]>>)

\* open(name, mode='a') and the writes of one submit entry
append_entry(scripts, name, entry) ==
  put(scripts, name, IF name \in DOMAIN scripts THEN Append(scripts[name], entry)
                     ELSE <<entry>>)

\* create_job_script for the prep job in directory path
prep_job_script(f, path, job) ==
  IF path \notin f.dirs THEN [fs |-> f, exc |-> "IOError"]
  ELSE [fs |-> [f EXCEPT !.scripts = write_job_file(@, path \o "/job", job),
                         !.coll = Append(@, [kind |-> "submit", name |-> path])],
        exc |-> "none"]

\* create_job_script for a G0W0, GW0 or scGW0 job in directory dir under path
stage_job_script(f, path, dir, job, entry) ==
  IF dir \notin f.dirs THEN [fs |-> f, exc |-> "IOError"]
  ELSE [fs |-> [f EXCEPT !.scripts =
                  append_entry(write_job_file(@, dir \o "/job", job),
                               path \o "/job", entry)],
        exc |-> "none"]

\* create_job_script (add_to_collection = True)
create_job_script(f, d, job, option, x) ==
  IF job = "prep"
  THEN prep_job_script(f, prep_path(x, option), job)
  ELSE IF job \in ManyBodyJobs
  THEN stage_job_script(f, prep_path(x, option), job_path(x, job, option), job,
                        [kind |-> "submit", name |-> job \o option_names(option)[2]])
  ELSE [fs |-> f, exc |-> "none"]

\* create_job after create_input returned or raised
after_create_input(r, d, job, option, x) ==
  IF r.exc # "none" \/ d.mode # "ceci" THEN r
  ELSE create_job_script(r.fs, d, job, option, x)

\* create_job: the work it does for the modes input, ceci and fw
create_job(f, d, job, option, x) ==
  IF d.mode \in {"input", "ceci"}
  THEN after_create_input(create_input(f, d, job, option, x), d, job, option, x)
  ELSE [fs |-> f, exc |-> "none"]

\* SingleAbinitGWWorkFlow: build the flow in work_dir, then create_job_file
abinit_flow(f, x) ==
  [f EXCEPT !.dirs = @ \cup {reduced_formula(x)},
            !.coll = Append(@, [kind |-> "abirun", name |-> reduced_formula(x)])]

\* reset_job_collection on a job_collection file with the given content
reset_job_collection(coll, d) ==
  IF d.mode = "ceci"
  THEN IF d.code = "ABINIT" THEN <<[kind |-> "module", name |-> "abinit"]>> ELSE <<>>
  ELSE coll

(***************************************************************************)
(* excecute_flow.                                                          *)
(***************************************************************************)
\* the (parameter, value) pairs of a catalog, in iteration order
RECURSIVE variants(_, _)
variants(tests, keys) ==
  IF keys = <<>> THEN <<>>
  ELSE (IF Head(keys) \in DOMAIN tests
        THEN [i \in DOMAIN tests[Head(keys)].test_range |->
                <<Head(keys), tests[Head(keys)].test_range[i]>>]
        ELSE <<>>) \o variants(tests, Tail(keys))

\* tests_prep of excecute_flow: the prep catalog updated with the
\* diagonalization catalog
tests_prep(x) == dict_update(construct("prep", x).tests, construct("diag", x).tests)

\* tests of excecute_flow for a G0W0, GW0 or scGW0 job
tests_stage(x) == construct("g0w0", x).tests

(***************************************************************************)
(* Inputs of the specifications.                                           *)
(***************************************************************************)
RangeOf(seq) == {seq[i] : i \in DOMAIN seq}

\* the values of the three sweep tables
SweepValues == UNION {RangeOf(all_tests[p].test_range) : p \in DOMAIN all_tests}

RawValues == (0..MaxRaw) \cup SweepValues

\* a parameter name of none of the sweep tables
UnknownParam == "ENCUT"

\* the single-entry mappings handed to set_test
TestArgs ==
  {<<p, all_tests[p].test_range[i]>> :
     p \in DOMAIN all_tests, i \in 1..3} \cup {<<UnknownParam, 400>>}

NoCall == [op |-> "none", arg |-> <<>>, raised |-> "none"]
NoOut == [op |-> "none", raw |-> 0, val |-> 0]

\* GWSpecs.__init__
DefaultData ==
  [mode |-> "ceci", jobs |-> <<"prep", "G0W0">>, test |-> FALSE, source |-> "mp-vasp",
   code |-> "VASP", functional |-> "PBE", kp_grid_dens |-> 500, prec |-> "m"]

EmptyDir == [dirs |-> {}, files |-> <<>>, wannier |-> {}, scripts |-> <<>>, coll |-> <<>>]

KeyOrders == {<<"NBANDS", "ENCUTGW", "NOMEGA">>, <<"NBANDS", "NOMEGA", "ENCUTGW">>}

NoFrame == [ip |-> 0, ij |-> 0, iv |-> 0, tests |-> "unbound",
            order |-> <<"NBANDS", "ENCUTGW", "NOMEGA">>]

\* no flow is running
IdleFlow ==
  /\ data = DefaultData
  /\ pc = "idle"
  /\ frame = NoFrame
  /\ calls = <<>>
  /\ fs = EmptyDir
  /\ exc = "none"
  /\ consulted = FALSE

\* no run of the main program is going on
IdleRun ==
  /\ errors = <<>>
  /\ warnings = <<>>
  /\ rpc = "idle"
  /\ items = <<>>
  /\ nedits = 0

Structure(e, n, v, k) == [electrons |-> e, natoms |-> n, volume |-> v, kx |-> k]

(***************************************************************************)
(* SpecSet: one input set of any stage, built for a structure, and any     *)
(* sequence of calls of its mutators.                                      *)
(***************************************************************************)
SetStructures ==
  {Structure(c[1], c[2], c[3], k) :
     c \in {<<112, 2, 1200>>, <<96, 2, 12>>, <<10, 2, 50>>, <<2, 1, 12>>, <<2, 1, 1200>>},
     k \in 1..MaxKx}

InitSet ==
  /\ st \in SetStructures
  /\ \E kind \in Kinds : inpset = construct(kind, st)
  /\ last = NoCall
  /\ ncalls = 0
  /\ out = NoOut
  /\ IdleFlow
  /\ IdleRun

Call_set_test ==
  \E t \in TestArgs :
    /\ ncalls < MaxCalls
    /\ inpset' = set_test(inpset, st, t)
    /\ last' = [op |-> "set_test", arg |-> t,
                raised |-> IF set_test_raises(t) THEN "KeyError" ELSE "none"]
    /\ ncalls' = ncalls + 1
    /\ UNCHANGED <<st, out>>
    /\ UNCHANGED flowvars
    /\ UNCHANGED runvars

Call_set_gw_bands ==
  \E factor \in {15, 30} :
    /\ ncalls < MaxCalls
    /\ inpset.kind \in {"diag", "g0w0"}
    /\ inpset' = set_gw_bands(inpset, st, factor)
    /\ last' = [op |-> "set_gw_bands", arg |-> <<factor>>, raised |-> "none"]
    /\ ncalls' = ncalls + 1
    /\ UNCHANGED <<st, out>>
    /\ UNCHANGED flowvars
    /\ UNCHANGED runvars

Call_gw0_on ==
  \E niter \in {1, 4}, gwbandsfac \in {3, 4}, qpsc \in BOOLEAN :
    /\ ncalls < MaxCalls
    /\ inpset.kind = "g0w0"
    /\ inpset' = gw0_on(inpset, st, niter, gwbandsfac, qpsc)
    /\ last' = [op |-> "gw0_on", arg |-> <<niter, gwbandsfac, qpsc>>, raised |-> "none"]
    /\ ncalls' = ncalls + 1
    /\ UNCHANGED <<st, out>>
    /\ UNCHANGED flowvars
    /\ UNCHANGED runvars

Call_set_prec_high ==
  /\ ncalls < MaxCalls
  /\ inpset.kind = "g0w0" => inpset.incar["NOMEGA"] <= MaxNomega
  /\ inpset' = set_prec_high(inpset, st)
  /\ last' = [op |-> "set_prec_high", arg |-> <<>>, raised |-> "none"]
  /\ ncalls' = ncalls + 1
  /\ UNCHANGED <<st, out>>
  /\ UNCHANGED flowvars
  /\ UNCHANGED runvars

Call_set_dens ==
  \E dens \in {500, 1000} :
    /\ ncalls < MaxCalls
    /\ inpset' = set_dens(inpset, dens)
    /\ last' = [op |-> "set_dens", arg |-> <<dens>>, raised |-> "none"]
    /\ ncalls' = ncalls + 1
    /\ UNCHANGED <<st, out>>
    /\ UNCHANGED flowvars
    /\ UNCHANGED runvars

NextSet ==
  \/ Call_set_test
  \/ Call_set_gw_bands
  \/ Call_gw0_on
  \/ Call_set_prec_high
  \/ Call_set_dens

SpecSet == InitSet /\ [][NextSet]_vars

(***************************************************************************)
(* SpecNpar: the derivations as functions of their inputs.                 *)
(***************************************************************************)
InitNpar ==
  /\ st \in {Structure(e, n, v, 1) :
               e \in 0..MaxElectrons, n \in 1..MaxAtoms, v \in 1..MaxVolume}
  /\ inpset = construct("g0w0", st)
  /\ last = NoCall
  /\ ncalls = 0
  /\ out = NoOut
  /\ IdleFlow
  /\ IdleRun

Apply_get_npar ==
  /\ out.op = "none"
  /\ out' = [op |-> "get_npar", raw |-> 0, val |-> get_npar(st)]
  /\ UNCHANGED <<st, inpset, last, ncalls>>
  /\ UNCHANGED flowvars
  /\ UNCHANGED runvars

Apply_set_nbands ==
  \E raw \in RawValues :
    /\ out.op = "none"
    /\ out' = [op |-> "set_nbands", raw |-> raw,
               val |-> set_test(inpset, st, <<"NBANDS", raw>>).incar["NBANDS"]]
    /\ UNCHANGED <<st, inpset, last, ncalls>>
    /\ UNCHANGED flowvars
    /\ UNCHANGED runvars

Apply_set_nomega ==
  \E raw \in RawValues :
    /\ out.op = "none"
    /\ out' = [op |-> "set_nomega", raw |-> raw,
               val |-> set_test(inpset, st, <<"NOMEGA", raw>>).incar["NOMEGA"]]
    /\ UNCHANGED <<st, inpset, last, ncalls>>
    /\ UNCHANGED flowvars
    /\ UNCHANGED runvars

NextNpar ==
  \/ Apply_get_npar
  \/ Apply_set_nbands
  \/ Apply_set_nomega

SpecNpar == InitNpar /\ [][NextNpar]_vars

(***************************************************************************)
(* SpecName: the names derived from a pair of selections, each selection   *)
(* empty or one {parameter: value} of a sweep table.                       *)
(***************************************************************************)
\* values of a selection: one-digit values, and sweep values that differ
\* from them and from each other by the place of a digit
NameValues == (0..MaxRaw) \cup {10, 12, 120}

Selections == {<<>>} \cup {<<p, v>> : p \in DOMAIN all_tests, v \in NameValues}

SelectionPairs == Selections \X Selections

InitName ==
  /\ st \in {Structure(8, 2, 40, 3)}
  /\ inpset = construct("prep", st)
  /\ last = NoCall
  /\ ncalls = 0
  /\ out = NoOut
  /\ IdleFlow
  /\ IdleRun

Apply_folder_name ==
  \E option \in SelectionPairs :
    /\ out.op = "none"
    /\ out' = [op |-> "folder_name", raw |-> option, val |-> folder_name(option)]
    /\ UNCHANGED <<st, inpset, last, ncalls>>
    /\ UNCHANGED flowvars
    /\ UNCHANGED runvars

\* the copy of folder_name inside create_input and create_job_script, which
\* also takes option None
Apply_option_names ==
  \E option \in SelectionPairs \cup {<<>>} :
    /\ out.op = "none"
    /\ out' = [op |-> "option_names", raw |-> option, val |-> option_names(option)]
    /\ UNCHANGED <<st, inpset, last, ncalls>>
    /\ UNCHANGED flowvars
    /\ UNCHANGED runvars

NextName ==
  \/ Apply_folder_name
  \/ Apply_option_names

SpecName == InitName /\ [][NextName]_vars

(***************************************************************************)
(* SpecFlow: excecute_flow for one structure, under any configuration of   *)
(* mode, code, sweep flag, precision tier and job sequence, one create_job *)
(* call per step.                                                          *)
(***************************************************************************)
FlowStructures == {Structure(8, 2, 40, 3)}

JobSeqs == UNION {[1..n -> JobTags] : n \in 0..MaxJobs}

Configurations ==
  {[DefaultData EXCEPT !.mode = m, !.code = c, !.test = t, !.prec = p, !.jobs = j] :
     m \in {"input", "ceci", "fw"}, c \in {"VASP", "ABINIT"}, t \in BOOLEAN,
     p \in {"m", "h"}, j \in JobSeqs}

InitFlow ==
  /\ st \in FlowStructures
  /\ out = NoOut
  /\ inpset = construct("prep", st)
  /\ last = NoCall
  /\ ncalls = 0
  /\ data \in Configurations
  /\ pc = "start"
  /\ \E o \in KeyOrders : frame = [NoFrame EXCEPT !.order = o]
  /\ calls = <<>>
  /\ fs = [EmptyDir EXCEPT !.coll = reset_job_collection(<<>>, data)]
  /\ exc = "none"
  /\ consulted = FALSE
  /\ IdleRun

\* the outcome r of a create_job call: the run goes on, or ends raised
JobOutcome(r, pcNext, frameNext) ==
  /\ fs' = r.fs
  /\ exc' = r.exc
  /\ IF r.exc = "none"
     THEN pc' = pcNext /\ frame' = frameNext
     ELSE pc' = "raised" /\ UNCHANGED frame

\* the call of create_job(structure, job, option) made for entry pos of the
\* job sequence (pos 0: the prep job the sweep branch creates itself)
DoCreateJob(job, option, pos, pcNext, frameNext) ==
  /\ calls' = Append(calls, [job |-> job, option |-> option, pos |-> pos])
  /\ JobOutcome(create_job(fs, data, job, option, st), pcNext, frameNext)

\* entry of excecute_flow: VASP with sweeps
Flow_start_sweep ==
  /\ pc = "start"
  /\ data.code = "VASP"
  /\ data.test
  /\ pc' = "sweep_prep"
  /\ frame' = [frame EXCEPT !.ip = 1]
  /\ consulted' = TRUE
  /\ UNCHANGED <<data, calls, fs, exc>>
  /\ UNCHANGED setvars
  /\ UNCHANGED runvars

\* entry of excecute_flow: VASP without sweeps
Flow_start_plain ==
  /\ pc = "start"
  /\ data.code = "VASP"
  /\ ~data.test
  /\ pc' = "plain"
  /\ frame' = [frame EXCEPT !.ij = 1]
  /\ UNCHANGED <<data, calls, fs, exc, consulted>>
  /\ UNCHANGED setvars
  /\ UNCHANGED runvars

\* excecute_flow for ABINIT: nothing with sweeps, else one abinit flow
Flow_abinit ==
  /\ pc = "start"
  /\ data.code = "ABINIT"
  /\ fs' = IF data.test THEN fs ELSE abinit_flow(fs, st)
  /\ pc' = "done"
  /\ UNCHANGED <<data, frame, calls, exc, consulted>>
  /\ UNCHANGED setvars
  /\ UNCHANGED runvars

\* the (parameter, value) pairs the outer and the inner loop go through
prep_variants == variants(tests_prep(st), frame.order)
stage_variants == variants(tests_stage(st), frame.order)

\* the loop over the values of tests_prep: the prep job of the next value
Flow_sweep_prep ==
  /\ pc = "sweep_prep"
  /\ IF frame.ip > Len(prep_variants)
     THEN /\ pc' = "done"
          /\ UNCHANGED <<frame, calls, fs, exc>>
     ELSE DoCreateJob("prep", <<prep_variants[frame.ip], <<>>>>, 0,
                      "sweep_job", [frame EXCEPT !.ij = 2])
  /\ UNCHANGED <<data, consulted>>
  /\ UNCHANGED setvars
  /\ UNCHANGED runvars

\* the local variable tests after the two if statements of the loop body
bind_tests(job, tests) == IF job \in ManyBodyJobs THEN "g0w0" ELSE tests

\* the loop over jobs[1:]: binds tests for a G0W0, GW0 or scGW0 job; the loop
\* over tests raises UnboundLocalError when no job has bound it yet
Flow_sweep_job ==
  /\ pc = "sweep_job"
  /\ IF frame.ij > Len(data.jobs)
     THEN /\ pc' = "sweep_prep"
          /\ frame' = [frame EXCEPT !.ip = @ + 1]
          /\ UNCHANGED exc
     ELSE IF bind_tests(data.jobs[frame.ij], frame.tests) = "unbound"
     THEN /\ pc' = "raised"
          /\ exc' = "UnboundLocalError"
          /\ UNCHANGED frame
     ELSE /\ pc' = "sweep_stage"
          /\ frame' = [frame EXCEPT !.tests = bind_tests(data.jobs[frame.ij], @),
                                    !.iv = 1]
          /\ UNCHANGED exc
  /\ UNCHANGED <<data, calls, fs, consulted>>
  /\ UNCHANGED setvars
  /\ UNCHANGED runvars

\* the loop over the values of tests: the job of the next value
Flow_sweep_stage ==
  /\ pc = "sweep_stage"
  /\ IF frame.iv > Len(stage_variants)
     THEN /\ pc' = "sweep_job"
          /\ frame' = [frame EXCEPT !.ij = @ + 1]
          /\ UNCHANGED <<calls, fs, exc>>
     ELSE DoCreateJob(data.jobs[frame.ij],
                      <<prep_variants[frame.ip], stage_variants[frame.iv]>>, frame.ij,
                      "sweep_stage", [frame EXCEPT !.iv = @ + 1])
  /\ UNCHANGED <<data, consulted>>
  /\ UNCHANGED setvars
  /\ UNCHANGED runvars

\* the loop over jobs without sweeps
Flow_plain ==
  /\ pc = "plain"
  /\ IF frame.ij > Len(data.jobs)
     THEN /\ pc' = "done"
          /\ UNCHANGED <<frame, calls, fs, exc>>
     ELSE DoCreateJob(data.jobs[frame.ij], <<>>, frame.ij,
                      "plain", [frame EXCEPT !.ij = @ + 1])
  /\ UNCHANGED <<data, consulted>>
  /\ UNCHANGED setvars
  /\ UNCHANGED runvars

NextFlow ==
  \/ Flow_start_sweep
  \/ Flow_start_plain
  \/ Flow_abinit
  \/ Flow_sweep_prep
  \/ Flow_sweep_job
  \/ Flow_sweep_stage
  \/ Flow_plain

SpecFlow == InitFlow /\ [][NextFlow]_vars

(***************************************************************************)
(* GWSpecs: update_interactive, from_dict and test.                        *)
(***************************************************************************)
\* str.lower() and str.upper() on the values that are entered
lower(v) ==
  CASE v = "CECI" -> "ceci"
    [] v = "True" -> "true"
    [] v = "F" -> "f"
    [] OTHER -> v

upper(v) ==
  CASE v = "pbe" -> "PBE"
    [] v = "lda" -> "LDA"
    [] OTHER -> v

\* int() of a string, given as its characters: the digits' value, or
\* ValueError (-1) when a character is not a digit
digit_value(c) == CHOOSE i \in 0..9 : DigitChars[i + 1] = c

RECURSIVE int_parse(_)
int_parse(cs) ==
  IF Len(cs) = 0 THEN 0
  ELSE 10 * int_parse(SubSeq(cs, 1, Len(cs) - 1)) + digit_value(cs[Len(cs)])

is_int(cs) == Len(cs) > 0 /\ \A i \in DOMAIN cs : cs[i] \in RangeOf(DigitChars)

\* one pass of the loop of update_interactive with a non-empty key:
\* the data it leaves and the exception it raises, if any
update_key(d, key, value) ==
  IF key \notin DOMAIN d THEN [data |-> d, exc |-> "none"]
  ELSE IF key = "jobs"
  THEN IF value = ""
       THEN IF Len(d.jobs) = 0 THEN [data |-> d, exc |-> "IndexError"]
            ELSE [data |-> [d EXCEPT !.jobs = SubSeq(@, 1, Len(@) - 1)], exc |-> "none"]
       ELSE [data |-> [d EXCEPT !.jobs = Append(@, value)], exc |-> "none"]
  ELSE IF key = "test"
  THEN [data |-> IF lower(value) \in {"true", "t"} THEN [d EXCEPT !.test = TRUE]
                 ELSE IF lower(value) \in {"false", "f"} THEN [d EXCEPT !.test = FALSE]
                 ELSE d,
        exc |-> "none"]
  ELSE IF key = "kp_grid_dens"
  THEN IF is_int(value)
       THEN [data |-> [d EXCEPT !.kp_grid_dens = int_parse(value)], exc |-> "none"]
       ELSE [data |-> d, exc |-> "ValueError"]
  ELSE [data |-> [d EXCEPT ![key] = value], exc |-> "none"]

\* the end of update_interactive
update_finish(d) == [d EXCEPT !.functional = upper(@)]

\* the files os.path.isfile finds in the working directory
ExistingFiles == {"ids.txt"}

\* the three checks of test
mode_errors(d) ==
  IF lower(d.mode) \notin {"input", "ceci", "fw"} THEN <<"unspecified mode">> ELSE <<>>

\* the functional check with the list of the VASP branch in both branches
code_errors_same_functionals(d) ==
  IF d.code \in {"VASP", "ABINIT"}
  THEN IF d.functional \notin {"PBE", "LDA"}
       THEN <<d.functional \o "not defined for " \o d.code \o " yet">> ELSE <<>>
  ELSE <<"unknown code">>

code_errors(d) ==
  IF d.code = "VASP"
  THEN IF d.functional \notin {"PBE", "LDA"}
       THEN <<d.functional \o "not defined for VASP yet">> ELSE <<>>
  ELSE IF d.code = "ABINIT"
  THEN IF d.functional \notin {"PBE"}
       THEN <<d.functional \o "not defined for ABINIT yet">> ELSE <<>>
  ELSE <<"unknown code">>

code_warnings(d) ==
  IF d.code = "ABINIT" /\ d.test
  THEN <<"no tests defined for ABINIT calculations">> ELSE <<>>

source_errors(d) ==
  IF d.source \notin {"poscar", "mp-vasp"} /\ d.source \notin ExistingFiles
  THEN <<"no structures defined">> ELSE <<>>

\* test that exits at the first check that fails
test_errors_first(errs, d) ==
  IF mode_errors(d) # <<>> THEN errs \o mode_errors(d)
  ELSE IF code_errors(d) # <<>> THEN errs \o code_errors(d)
  ELSE errs \o source_errors(d)

\* test recording the warning of the ABINIT branch as an error
test_errors_with_warnings(errs, d) ==
  errs \o mode_errors(d) \o code_warnings(d) \o code_errors(d) \o source_errors(d)

\* self.errors after the three checks
test_errors(errs, d) == errs \o mode_errors(d) \o code_errors(d) \o source_errors(d)

\* self.warnings after the checks
test_warnings(warns, d) == warns \o code_warnings(d)

\* reset_job_collection that leaves the file of an earlier run in place
test_coll_keep(errs, d, coll) == coll

\* the job_collection file after test: reset unless test exits
test_coll(errs, d, coll) ==
  IF Len(test_errors(errs, d)) > 0 THEN coll ELSE reset_job_collection(coll, d)

\* where the run is after test: exit() with errors, else on to main
test_rpc(errs, d) == IF Len(test_errors(errs, d)) > 0 THEN "exited" ELSE "tested"

(***************************************************************************)
(* main: the items of the structure source, one excecute_flow per item.    *)
(***************************************************************************)
mp_list_vasp ==
  <<<<"m", "p", "-", "1", "4", "9">>, <<"m", "p", "-", "2", "5", "3", "4">>,
    <<"m", "p", "-", "8", "0", "6", "2">>>>

\* what os.listdir('.') can return
Listings ==
  {<<<<"P", "O", "S", "C", "A", "R", "_", "S", "i">>>>,
   <<<<"n", "o", "t", "e", "s">>, <<"P", "O", "S", "C", "A", "R", "_", "S", "i">>>>}

\* the stripped lines of the file named by source
FileLines == <<<<"m", "p", "-", "1", "4", "9">>>>

\* the values items_list can take for a source
items_lists(d) ==
  IF d.source = "mp-vasp" THEN {SubSeq(mp_list_vasp, 1, min2(MaxItems, Len(mp_list_vasp)))}
  ELSE IF d.source = "poscar" THEN Listings
  ELSE {FileLines}

\* str.startswith
startswith(cs, prefix) ==
  Len(cs) >= Len(prefix) /\ SubSeq(cs, 1, Len(prefix)) = prefix

\* an item main reads a structure for
recognized(item) ==
  \/ startswith(item, <<"P", "O", "S", "C", "A", "R", "_">>)
  \/ startswith(item, <<"m", "p", "-">>)

(***************************************************************************)
(* SpecRun: the main program: update_interactive (or from_dict), test,     *)
(* main, and the excecute_flow of every item.                              *)
(***************************************************************************)
\* the keys entered at the prompt and the values entered for a key
EnteredKeys == DOMAIN DefaultData \cup {"h", "nodes"}

EnteredValues(key) ==
  CASE key = "mode" -> {"input", "ceci", "fw", "CECI", "batch"}
    [] key = "code" -> {"VASP", "ABINIT", "QE"}
    [] key = "functional" -> {"PBE", "LDA", "pbe", "HSE"}
    [] key = "jobs" -> {"", "prep", "G0W0", "GW0", "scGW0"}
    [] key = "test" -> {"True", "t", "F", "maybe"}
    [] key = "source" -> {"mp-vasp", "poscar", "ids.txt", "nofile"}
    [] key = "kp_grid_dens" -> {<<"1", "0", "0", "0">>, <<"d", "e", "n", "s", "e">>}
    [] key = "prec" -> {"m", "h"}
    [] OTHER -> {""}

\* the configuration documents handed to from_dict
Documents ==
  {DefaultData,
   [DefaultData EXCEPT !.code = "ABINIT", !.functional = "LDA"],
   dict_update(DefaultData, [k \in {"nodes"} |-> "4"])}

\* a job_collection file left by an earlier run
OldCollections == {<<>>, <<[kind |-> "submit", name |-> "Ge"]>>}

InitRun ==
  /\ st \in FlowStructures
  /\ out = NoOut
  /\ inpset = construct("prep", st)
  /\ last = NoCall
  /\ ncalls = 0
  /\ data = DefaultData
  /\ pc = "idle"
  /\ \E o \in KeyOrders : frame = [NoFrame EXCEPT !.order = o]
  /\ calls = <<>>
  /\ \E c \in OldCollections : fs = [EmptyDir EXCEPT !.coll = c]
  /\ exc = "none"
  /\ consulted = FALSE
  /\ errors = <<>>
  /\ warnings = <<>>
  /\ rpc = "update"
  /\ items = <<>>
  /\ nedits = 0

\* update_interactive: a key is entered, and a value if the key is known
Run_update_key ==
  \E key \in EnteredKeys :
    \E value \in EnteredValues(key) :
      /\ rpc = "update"
      /\ nedits < MaxEdits
      /\ data' = update_key(data, key, value).data
      /\ exc' = update_key(data, key, value).exc
      /\ rpc' = IF update_key(data, key, value).exc = "none" THEN "update" ELSE "raised"
      /\ last' = [op |-> "update_interactive", arg |-> <<key, value>>,
                  raised |-> update_key(data, key, value).exc]
      /\ nedits' = nedits + 1
      /\ UNCHANGED <<st, out, inpset, ncalls, pc, frame, calls, fs, consulted,
                     errors, warnings, items>>

\* update_interactive: the empty key ends the loop
Run_update_finish ==
  /\ rpc = "update"
  /\ data' = update_finish(data)
  /\ rpc' = "test"
  /\ last' = [op |-> "update_interactive", arg |-> <<"">>, raised |-> "none"]
  /\ UNCHANGED <<st, out, inpset, ncalls, pc, frame, calls, fs, exc, consulted,
                 errors, warnings, items, nedits>>

\* test: the checks, exit() on errors, else reset_job_collection
Run_test ==
  /\ rpc = "test"
  /\ errors' = test_errors(errors, data)
  /\ warnings' = test_warnings(warnings, data)
  /\ fs' = [fs EXCEPT !.coll = test_coll(errors, data, @)]
  /\ rpc' = test_rpc(errors, data)
  /\ last' = [op |-> "test", arg |-> <<>>, raised |-> "none"]
  /\ UNCHANGED <<st, out, inpset, ncalls, data, pc, frame, calls, exc, consulted,
                 items, nedits>>

\* from_dict: installs the document and calls test
Run_from_dict ==
  \E doc \in Documents :
    /\ rpc = "update"
    /\ nedits = 0
    /\ data' = doc
    /\ errors' = test_errors(errors, doc)
    /\ warnings' = test_warnings(warnings, doc)
    /\ fs' = [fs EXCEPT !.coll = test_coll(errors, doc, @)]
    /\ rpc' = test_rpc(errors, doc)
    /\ last' = [op |-> "from_dict", arg |-> <<doc>>, raised |-> "none"]
    /\ UNCHANGED <<st, out, inpset, ncalls, pc, frame, calls, exc, consulted,
                   items, nedits>>

\* main: items_list is read from the source
Run_main_begin ==
  /\ rpc = "tested"
  /\ items' \in items_lists(data)
  /\ rpc' = "main"
  /\ UNCHANGED <<st, out, inpset, last, ncalls, data, pc, frame, calls, fs, exc,
                 consulted, errors, warnings, nedits>>

\* main: the next item; excecute_flow starts for an item a structure is read
\* for, and next(item) raises TypeError for any other item
Run_main_item ==
  /\ rpc = "main"
  /\ pc \in {"idle", "done"}
  /\ items # <<>>
  /\ items' = Tail(items)
  /\ IF recognized(Head(items))
     THEN /\ pc' = "start"
          /\ frame' = [NoFrame EXCEPT !.order = frame.order]
          /\ UNCHANGED <<rpc, exc>>
     ELSE /\ rpc' = "raised"
          /\ exc' = "TypeError"
          /\ UNCHANGED <<pc, frame>>
  /\ UNCHANGED <<st, out, inpset, last, ncalls, data, calls, fs, consulted,
                 errors, warnings, nedits>>

\* main: after the last item, chmod of job_collection in mode ceci, which
\* raises OSError when no such file exists
Run_main_finish ==
  /\ rpc = "main"
  /\ pc \in {"idle", "done"}
  /\ items = <<>>
  /\ IF data.mode = "ceci" /\ fs.coll = <<>>
     THEN rpc' = "raised" /\ exc' = "OSError"
     ELSE rpc' = "finished" /\ UNCHANGED exc
  /\ UNCHANGED <<st, out, inpset, last, ncalls, data, pc, frame, calls, fs,
                 consulted, errors, warnings, items, nedits>>

NextRun ==
  \/ Run_update_key
  \/ Run_update_finish
  \/ Run_test
  \/ Run_from_dict
  \/ Run_main_begin
  \/ Run_main_item
  \/ Run_main_finish
  \/ Flow_start_sweep
  \/ Flow_start_plain
  \/ Flow_abinit
  \/ Flow_sweep_prep
  \/ Flow_sweep_job
  \/ Flow_sweep_stage
  \/ Flow_plain

SpecRun == InitRun /\ [][NextRun]_vars

(***************************************************************************)
(* Claims about the input sets.                                            *)
(***************************************************************************)
AlignedKeys == {"NBANDS", "NOMEGA", "NBANDSGW"}

\* C1: in every state reached from the construction of a stage parameter set
\* by calls of set_test, set_gw_bands, gw0_on, set_prec_high and set_dens,
\* each of NBANDS, NOMEGA and NBANDSGW that is present is an integer multiple
\* of get_npar(structure).
C1_AlignedToNpar ==
  \A k \in AlignedKeys \cap DOMAIN inpset.incar :
    inpset.incar[k] % get_npar(st) = 0

\* C2: the value stored by set_test with method set_nbands is
\* npar*floor(raw*bands/npar + 1), the value stored with method set_nomega is
\* npar*floor(raw/npar), and both are exact multiples of the npar in 1..52
\* used to derive them.
C2_SweepValuesAligned ==
  LET npar == get_npar(st)
      bands == get_bands(st)
  IN /\ out.op = "set_nbands" =>
          /\ npar \in 1..52
          /\ out.val % npar = 0
          /\ out.val = npar * ((out.raw * bands) \div npar + 1)
     /\ out.op = "set_nomega" =>
          /\ npar \in 1..52
          /\ out.val % npar = 0
          /\ out.val = npar * (out.raw \div npar)

\* C2 witness: a sweep value that is not itself a multiple of the parallel
\* factor has been aligned
C2_Witness ==
  /\ out.op = "set_nomega"
  /\ get_npar(st) = 52
  /\ out.raw = 80
  /\ out.val = 52

\* C3: get_npar returns a value in [1, 52] and is monotonically
\* non-decreasing in bands^2 * volume.
C3_NparRangeMonotone ==
  out.op = "get_npar" =>
    /\ out.val \in 1..52
    /\ \A b2 \in 1..(MaxElectrons \div 2 + MaxAtoms), v2 \in 1..MaxVolume :
         (b2 * b2 * v2 >= get_bands(st) * get_bands(st) * st.volume)
           => npar_of(b2, v2) >= out.val

\* C3 witness: get_npar applied to a structure whose quotient exceeds 52,
\* so that the upper end of the range is what keeps the value at 52
C3_Witness ==
  /\ out.op = "get_npar"
  /\ out.val = 52
  /\ get_bands(st) * get_bands(st) * st.volume >= 53 * 600

\* C4 as stated: the parallel factor is clamp(round(bands^2*volume/600), 1, 52),
\* the quotient rounded to the nearest integer, not truncated.
C4_NparRounds ==
  out.op = "get_npar" =>
    out.val = npar_rounded(get_bands(st), st.volume)

\* C4 amended: the parallel factor is clamp(floor(bands^2*volume/600), 1, 52),
\* the quotient truncated to an integer before clamping.
C4_NparTruncates ==
  out.op = "get_npar" =>
    LET q == (get_bands(st) * get_bands(st) * st.volume) \div 600
    IN out.val = IF q < 1 THEN 1 ELSE IF q > 52 THEN 52 ELSE q

\* C4 witness: a quotient with fractional part above one half is truncated
C4_Witness ==
  /\ out.op = "get_npar"
  /\ get_bands(st) = 10
  /\ st.volume = 10
  /\ out.val = 1

\* C5: immediately after constructing the diagonalization parameter set,
\* NBANDS = npar*floor(15*bands/npar + 1), NELM = 1, and ALGO is 'fast' if
\* that NBANDS exceeds 800 and 'Exact' otherwise (exactly 800 stays 'Exact');
\* for bands=58 and npar=52 this gives NBANDS=884 and ALGO='fast'.
C5_DiagConstruction ==
  (inpset.kind = "diag" /\ ncalls = 0) =>
    LET npar == get_npar(st)
        bands == get_bands(st)
        nbands == npar * ((15 * bands) \div npar + 1)
    IN /\ inpset.incar["NBANDS"] = nbands
       /\ inpset.incar["NELM"] = 1
       /\ inpset.incar["ALGO"] = IF nbands > 800 THEN "fast" ELSE "Exact"
       /\ (bands = 58 /\ npar = 52) =>
            (inpset.incar["NBANDS"] = 884 /\ inpset.incar["ALGO"] = "fast")
       /\ nbands = 800 => inpset.incar["ALGO"] = "Exact"

\* C5 witness: the diagonalization set of the structure with 58 bands and
\* parallel factor 52, as constructed
C5_Witness ==
  /\ inpset.kind = "diag"
  /\ ncalls = 0
  /\ get_bands(st) = 58
  /\ get_npar(st) = 52
  /\ inpset.incar["NBANDS"] = 884
  /\ inpset.incar["ALGO"] = "fast"

\* C6: gw0_on(niter, gwbandsfac, qpsc) sets NELM to niter and NBANDSGW to
\* npar*floor(bands*gwbandsfac/npar), and sets ALGO to 'scGW0' exactly when
\* qpsc is true (ALGO is left unchanged otherwise); with niter=4, gwbandsfac=4
\* on bands=58, npar=52 the update band count is 208.
C6_Gw0On ==
  [][last'.op = "gw0_on" =>
       LET niter == last'.arg[1]
           gwbandsfac == last'.arg[2]
           qpsc == last'.arg[3]
           npar == get_npar(st)
           bands == get_bands(st)
       IN /\ inpset'.incar["NELM"] = niter
          /\ inpset'.incar["NBANDSGW"] = npar * ((bands * gwbandsfac) \div npar)
          /\ inpset'.incar["ALGO"] = IF qpsc THEN "scGW0" ELSE inpset.incar["ALGO"]
          /\ (niter = 4 /\ gwbandsfac = 4 /\ bands = 58 /\ npar = 52)
               => inpset'.incar["NBANDSGW"] = 208]_vars

\* C6 witness: gw0_on with the defaults on the structure with 58 bands
C6_Witness ==
  /\ last.op = "gw0_on"
  /\ last.arg = <<4, 4, FALSE>>
  /\ get_bands(st) = 58
  /\ get_npar(st) = 52
  /\ inpset.incar["NBANDSGW"] = 208
  /\ inpset.incar["ALGO"] # "scGW0"

\* C7: set_test called with a parameter name that is in none of the prep,
\* diagonalization and G0W0 sweep tables fails with KeyError, and the settings
\* mapping and k-point settings of the parameter set are left unchanged.
C7_UnknownParamKeyError ==
  [][last'.op = "set_test" =>
       /\ (last'.arg[1] \notin (DOMAIN TESTS_Prep \cup DOMAIN TESTS_Diag
                                  \cup DOMAIN TESTS_G0W0))
            => (last'.raised = "KeyError" /\ inpset' = inpset)
       /\ last'.raised = "KeyError" => inpset' = inpset]_vars

\* C7 witness: a failed set_test on a set that earlier calls had changed
C7_Witness ==
  /\ last.op = "set_test"
  /\ last.arg[1] = UnknownParam
  /\ last.raised = "KeyError"
  /\ ncalls >= 2
  /\ "ENCUT" \in DOMAIN inpset.incar

\* C8 as stated: the tests attribute of each stage parameter set is the union
\* of that stage's own TESTS table and the TESTS tables of all its ancestor
\* stages; the G0W0 stage's catalog contains NBANDS besides ENCUTGW and NOMEGA.
C8_CatalogIsUnion ==
  /\ inpset.kind = "prep" => inpset.tests = TESTS_Prep
  /\ inpset.kind = "diag" => inpset.tests = dict_update(TESTS_Prep, TESTS_Diag)
  /\ inpset.kind = "g0w0" =>
       /\ inpset.tests = dict_update(dict_update(TESTS_Prep, TESTS_Diag), TESTS_G0W0)
       /\ {"NBANDS", "ENCUTGW", "NOMEGA"} \subseteq DOMAIN inpset.tests

\* C8 amended: the tests attribute of each stage parameter set is that
\* stage's own TESTS table only; the G0W0 stage's catalog holds ENCUTGW and
\* NOMEGA and not the diagonalization stage's NBANDS entry.
C8_CatalogIsOwnTable ==
  /\ inpset.kind = "prep" => inpset.tests = TESTS_Prep
  /\ inpset.kind = "diag" => inpset.tests = TESTS_Diag
  /\ inpset.kind = "g0w0" =>
       /\ inpset.tests = TESTS_G0W0
       /\ DOMAIN inpset.tests = {"ENCUTGW", "NOMEGA"}

\* C8 witness: a G0W0 set, after calls, whose catalog lacks NBANDS
C8_Witness ==
  /\ inpset.kind = "g0w0"
  /\ ncalls > 0
  /\ "NBANDS" \notin DOMAIN inpset.tests
  /\ "NOMEGA" \in DOMAIN inpset.tests

(***************************************************************************)
(* Claims about excecute_flow.                                             *)
(***************************************************************************)
\* excecute_flow has returned or has been left by an exception
FlowEnded == pc \in {"done", "raised"}

\* number of create_job calls made for entry pos of the job sequence
CallsAt(pos) == Cardinality({i \in DOMAIN calls : calls[i].pos = pos})

\* number of (parameter, value) pairs of a catalog
CatalogPairs(tests) == Len(variants(tests, <<"NBANDS", "ENCUTGW", "NOMEGA">>))

\* C9: with sweeps enabled on the VASP backend, excecute_flow creates for
\* each later stage of the job sequence exactly |prep_catalog| x
\* |stage_catalog| jobs and exactly |prep_catalog| prep jobs, |prep_catalog|
\* the number of (parameter, value) pairs of the prep-stage combined catalog
\* and |stage_catalog| that of the stage's catalog. Stated for the job
\* sequences whose later stages are G0W0, GW0 or scGW0, the stages for which
\* excecute_flow reads a catalog.
C9_SweepExpansionSize ==
  (/\ FlowEnded
   /\ data.code = "VASP"
   /\ data.test
   /\ \A j \in 2..Len(data.jobs) : data.jobs[j] \in ManyBodyJobs) =>
    /\ CallsAt(0) = CatalogPairs(tests_prep(st))
    /\ \A j \in 2..Len(data.jobs) :
         CallsAt(j) = CatalogPairs(tests_prep(st)) * CatalogPairs(construct("g0w0", st).tests)

\* C10: with sweeps disabled on the VASP backend, excecute_flow calls
\* create_job exactly once for every entry of the configured job sequence, in
\* sequence order, each with option None, and consults no sweep catalog.
C10_PlainOncePerJob ==
  (FlowEnded /\ data.code = "VASP" /\ ~data.test) =>
    /\ calls = [i \in 1..Len(data.jobs) |->
                  [job |-> data.jobs[i], option |-> <<>>, pos |-> i]]
    /\ ~consulted

\* the INCAR written into the directory of the job of a create_job call
IncarPath(c) == job_path(st, c.job, c.option) \o "/INCAR"

\* C11: with sweeps enabled, the parameter set serialized for a G0W0, GW0 or
\* scGW0 job with selection ({p: v}, {q: w}) has both overrides applied for
\* every precision tier: its final NBANDS is npar*floor(v*bands/npar + 1) when
\* p is NBANDS, its final ENCUTGW is w when q is ENCUTGW, and its final NOMEGA
\* is npar*floor(w/npar) when q is NOMEGA.
C11_SweepOverridesSerialized ==
  \A i \in DOMAIN calls :
    (/\ data.test
     /\ calls[i].job \in ManyBodyJobs
     /\ IncarPath(calls[i]) \in DOMAIN fs.files) =>
      /\ calls[i].option[1][1] = "NBANDS" =>
           fs.files[IncarPath(calls[i])].incar["NBANDS"] =
             get_npar(st) * ((calls[i].option[1][2] * get_bands(st)) \div get_npar(st) + 1)
      /\ calls[i].option[2][1] = "ENCUTGW" =>
           fs.files[IncarPath(calls[i])].incar["ENCUTGW"] = calls[i].option[2][2]
      /\ calls[i].option[2][1] = "NOMEGA" =>
           fs.files[IncarPath(calls[i])].incar["NOMEGA"] =
             get_npar(st) * (calls[i].option[2][2] \div get_npar(st))

\* C20: immediately after constructing the many-body (G0W0) parameter set,
\* for every structure (every band count and parallel factor), ALGO is the
\* many-body mode 'GW0', with ENCUTGW = 250 and NELM = 1.
C20_G0W0Construction ==
  (inpset.kind = "g0w0" /\ ncalls = 0) =>
    /\ inpset.incar["ALGO"] = "GW0"
    /\ inpset.incar["ENCUTGW"] = 250
    /\ inpset.incar["NELM"] = 1

(***************************************************************************)
(* Claims about the names of the job directories.                          *)
(***************************************************************************)
\* C12: the label derivation (folder_name and its copies in create_input and
\* create_job_script) is injective over selection pairs whose components are
\* each empty or a single {parameter: value}: two pairs that differ in a key
\* or a value never yield the same (prep_suffix, stage_suffix); and it is
\* idempotent: a produced suffix holds none of the unsafe characters
\* ' : , { } space, so stripping them leaves it unchanged.
C12_LabelsInjectiveIdempotent ==
  /\ out.op = "folder_name" =>
       /\ \A o2 \in SelectionPairs : o2 # out.raw => folder_name(o2) # out.val
       /\ \A i \in 1..2 :
            /\ \A k \in DOMAIN out.val[i] : out.val[i][k] \notin {"'", ":", ",", "{", "}", " "}
            /\ strip_unsafe(out.val[i]) = out.val[i]
  /\ (out.op = "option_names" /\ out.raw # <<>>) =>
       out.val = <<join(folder_name(out.raw)[1]), join(folder_name(out.raw)[2])>>

\* C12 witness: the names of a pair of two non-empty selections, and a pair
\* that differs from it only by the place of a digit
C12_Witness ==
  /\ out.op = "folder_name"
  /\ out.raw = <<<<"NBANDS", 10>>, <<"NOMEGA", 120>>>>
  /\ out.val[1] = <<".", "N", "B", "A", "N", "D", "S", "1", "0">>
  /\ <<<<"NBANDS", 1>>, <<"NOMEGA", 12>>>> \in SelectionPairs

(***************************************************************************)
(* Claims about the validation of the configuration.                       *)
(***************************************************************************)
RangeOfErrors == {errors[i] : i \in DOMAIN errors}

\* the step in which test runs (called by the main program or by from_dict)
TestStep == rpc \notin {"tested", "exited"} /\ rpc' \in {"tested", "exited"}

\* C13: in a run (update, test, main) where test() has recorded at least one
\* error, the process exits inside test() only after all checks (mode,
\* backend/functional, structure source) have been evaluated and their errors
\* accumulated, and no create_job, create_input or create_job_script call and
\* no reset of the job collection happens in that run.
C13_ErrorsAccumulatedThenExit ==
  [][Len(errors') > 0 =>
       /\ rpc' = "exited"
       /\ ("unspecified mode" \in RangeOfErrors')
            <=> (lower(data'.mode) \notin {"input", "ceci", "fw"})
       /\ ("unknown code" \in RangeOfErrors') <=> (data'.code \notin {"VASP", "ABINIT"})
       /\ ((data'.functional \o "not defined for VASP yet") \in RangeOfErrors')
            <=> (data'.code = "VASP" /\ data'.functional \notin {"PBE", "LDA"})
       /\ ((data'.functional \o "not defined for ABINIT yet") \in RangeOfErrors')
            <=> (data'.code = "ABINIT" /\ data'.functional # "PBE")
       /\ ("no structures defined" \in RangeOfErrors')
            <=> (data'.source \notin {"poscar", "mp-vasp", "ids.txt"})
       /\ calls' = <<>>
       /\ fs' = fs
       /\ fs'.dirs = {}
       /\ fs'.scripts = <<>>
       /\ pc' = "idle"]_vars

\* C13 witness: a run that exited with two errors accumulated and the
\* job_collection file of an earlier run still in place
C13_Witness ==
  /\ rpc = "exited"
  /\ Len(errors) = 2
  /\ errors[1] = "unspecified mode"
  /\ fs.coll # <<>>
  /\ calls = <<>>

\* C14: test() on a configuration with code ABINIT and functional LDA (valid
\* mode and recognized source) records exactly one error, exits, and zero jobs
\* are created.
C14_AbinitLdaOneError ==
  (/\ last.op \in {"test", "from_dict"}
   /\ data.code = "ABINIT"
   /\ data.functional = "LDA"
   /\ lower(data.mode) \in {"input", "ceci", "fw"}
   /\ data.source \in {"poscar", "mp-vasp", "ids.txt"}) =>
    /\ Len(errors) = 1
    /\ rpc = "exited"
    /\ calls = <<>>
    /\ fs.dirs = {}
    /\ pc = "idle"

\* C14 witness: test has run on the ABINIT and LDA configuration entered at
\* the prompt
C14_Witness ==
  /\ last.op = "test"
  /\ data.code = "ABINIT"
  /\ data.functional = "LDA"
  /\ data.mode = "ceci"
  /\ data.source = "mp-vasp"
  /\ errors = <<"LDAnot defined for ABINIT yet">>
  /\ rpc = "exited"

\* C15: test() on a configuration with code VASP, functional PBE, mode ceci
\* and a recognized source records zero errors and resets the job_collection
\* artifact: after the call the file holds no entry written before the call
\* (it is absent or empty for VASP, and holds only the module-load line for
\* ABINIT).
C15_ValidConfigResetsCollection ==
  [][(/\ TestStep
      /\ data'.functional = "PBE"
      /\ data'.mode = "ceci"
      /\ data'.source \in {"poscar", "mp-vasp", "ids.txt"}) =>
       /\ data'.code = "VASP" =>
            (errors' = <<>> /\ rpc' = "tested" /\ fs'.coll = <<>>)
       /\ data'.code = "ABINIT" =>
            (errors' = <<>> /\ rpc' = "tested"
               /\ fs'.coll = <<[kind |-> "module", name |-> "abinit"]>>)]_vars

\* C15 witness: test has passed on the VASP, PBE, ceci configuration and the
\* job_collection file is absent
C15_Witness ==
  /\ last.op = "test"
  /\ rpc = "tested"
  /\ data.code = "VASP"
  /\ data.functional = "PBE"
  /\ data.mode = "ceci"
  /\ errors = <<>>
  /\ fs.coll = <<>>

\* C16: requesting sweeps (test = True) on the ABINIT backend with functional
\* PBE is a warning and not an error: test() records exactly one warning and
\* no error, does not exit, and the run continues to the job-collection reset
\* (stated for a valid mode and a recognized source).
C16_AbinitSweepIsWarning ==
  [][(/\ TestStep
      /\ data'.code = "ABINIT"
      /\ data'.functional = "PBE"
      /\ data'.test
      /\ lower(data'.mode) \in {"input", "ceci", "fw"}
      /\ data'.source \in {"poscar", "mp-vasp", "ids.txt"}) =>
       /\ warnings' = <<"no tests defined for ABINIT calculations">>
       /\ errors' = <<>>
       /\ rpc' = "tested"
       /\ data'.mode = "ceci" => fs'.coll = <<[kind |-> "module", name |-> "abinit"]>>]_vars

\* C16 witness: test has passed with the one warning, and the job_collection
\* file has been reset
C16_Witness ==
  /\ last.op = "test"
  /\ data.code = "ABINIT"
  /\ data.test
  /\ warnings = <<"no tests defined for ABINIT calculations">>
  /\ errors = <<>>
  /\ rpc = "tested"
  /\ fs.coll = <<[kind |-> "module", name |-> "abinit"]>>

\* C19: a configuration key outside the recognized set {mode, code,
\* functional, jobs, test, source, kp_grid_dens, prec} is rejected:
\* update_interactive leaves the configuration data unchanged for such a key,
\* and from_dict does not install a configuration document that contains such
\* a key.
C19_UnknownKeysRejected ==
  [][/\ (nedits' = nedits + 1 /\ last'.arg[1] \notin
           {"mode", "code", "functional", "jobs", "test", "source", "kp_grid_dens", "prec"})
          => data' = data
     /\ DOMAIN data' \subseteq
          {"mode", "code", "functional", "jobs", "test", "source", "kp_grid_dens", "prec"}]_vars

(***************************************************************************)
(* Claims about the job scripts.                                           *)
(***************************************************************************)
\* the prep directory and the directory name of the job of a create_job call
ParentDir(c) ==
  reduced_formula(st) \o (IF c.option = <<>> THEN "" ELSE join(folder_name(c.option)[1]))

ChildName(c) ==
  c.job \o (IF c.option = <<>> THEN "" ELSE join(folder_name(c.option)[2]))

\* C17: in ceci mode, whenever create_job_script appends the submit entry of
\* a G0W0, GW0 or scGW0 job to the parent (prep) script, the parent job's
\* directory already exists (it exists when create_input has returned and
\* create_job_script starts); this holds for every job sequence and for every
\* sweep variant.
C17_ParentDirExistsAtAppend ==
  [][(/\ Len(calls') = Len(calls) + 1
      /\ data.mode = "ceci"
      /\ calls'[Len(calls')].job \in ManyBodyJobs
      /\ exc' = "none") =>
       /\ ParentDir(calls'[Len(calls')]) \in
            create_input(fs, data, calls'[Len(calls')].job,
                         calls'[Len(calls')].option, st).fs.dirs
       /\ (ParentDir(calls'[Len(calls')]) \o "/job") \in DOMAIN fs'.scripts
       /\ fs'.scripts[ParentDir(calls'[Len(calls')]) \o "/job"]
            [Len(fs'.scripts[ParentDir(calls'[Len(calls')]) \o "/job"])]
              = [kind |-> "submit", name |-> ChildName(calls'[Len(calls')])]]_vars

\* C17 witness: the entry of a GW0 sweep variant has been appended to the
\* script of its prep directory
C17_Witness ==
  /\ data.mode = "ceci"
  /\ data.test
  /\ exc = "none"
  /\ "Si.NBANDS20" \in fs.dirs
  /\ "Si.NBANDS20/job" \in DOMAIN fs.scripts
  /\ \E n \in DOMAIN fs.scripts["Si.NBANDS20/job"] :
       fs.scripts["Si.NBANDS20/job"][n] = [kind |-> "submit", name |-> "GW0.NOMEGA100"]

\* C18: in ceci mode, after excecute_flow finishes for a structure, the prep
\* job's script contains, after the prep job's own commands, one 'enter child
\* directory; submit; return' entry for every later-stage job created under
\* that prep directory; this holds for every configured job sequence.
C18_PrepScriptTriggersChildren ==
  (pc = "done" /\ data.code = "VASP" /\ data.mode = "ceci") =>
    \A i \in DOMAIN calls :
      (/\ calls[i].job \in ManyBodyJobs
       /\ \E k \in DOMAIN calls :
            calls[k].job = "prep" /\ ParentDir(calls[k]) = ParentDir(calls[i])) =>
        /\ (ParentDir(calls[i]) \o "/job") \in DOMAIN fs.scripts
        /\ fs.scripts[ParentDir(calls[i]) \o "/job"][1].kind = "own"
        /\ \E n \in 2..Len(fs.scripts[ParentDir(calls[i]) \o "/job"]) :
             fs.scripts[ParentDir(calls[i]) \o "/job"][n]
               = [kind |-> "submit", name |-> ChildName(calls[i])]

(***************************************************************************)
(* Claims about main and about the jobs excecute_flow creates.             *)
(***************************************************************************)
\* C21: in main, an item of the structure-source list that is neither a
\* POSCAR_ file name nor an mp- identifier is skipped with a warning: no flow
\* is executed for it, no error propagates, and processing continues with the
\* next item of the list.
C21_UnrecognizedItemSkipped ==
  [][(/\ rpc = "main"
      /\ items # <<>>
      /\ items' = Tail(items)
      /\ ~startswith(Head(items), <<"P", "O", "S", "C", "A", "R", "_">>)
      /\ ~startswith(Head(items), <<"m", "p", "-">>)) =>
       /\ rpc' = "main"
       /\ exc' = "none"
       /\ pc' = pc
       /\ calls' = calls
       /\ fs' = fs]_vars

\* C22: create_input never writes a file into a directory that has not been
\* created earlier in the same run: for every job sequence, when a GW0 or
\* scGW0 job writes its wannier90.win file, the target directory of that write
\* exists (it is the job's own directory or one created by an earlier job).
C22_WannierDirExists ==
  [][(/\ Len(calls') = Len(calls) + 1
      /\ data.mode \in {"input", "ceci"}
      /\ calls'[Len(calls')].job \in {"GW0", "scGW0"}) =>
       /\ exc' # "IOError"
       /\ wannier_path(st, calls'[Len(calls')].job, calls'[Len(calls')].option)
            \in fs'.dirs]_vars

\* the stage tags of the create_job calls made so far
CreatedTags == {calls[i].job : i \in DOMAIN calls}

\* C23: with sweeps enabled on the VASP backend, the set of stage tags for
\* which excecute_flow creates jobs equals the set of tags in the configured
\* job sequence: a prep job is created only if prep is listed, and the first
\* listed stage is never skipped, whatever its tag.
C23_CreatedTagsAreListedTags ==
  (pc = "done" /\ data.code = "VASP" /\ data.test) =>
    /\ CreatedTags = RangeOf(data.jobs)
    /\ "prep" \in CreatedTags => "prep" \in RangeOf(data.jobs)
    /\ Len(data.jobs) > 0 => data.jobs[1] \in CreatedTags

====
